---- MODULE Spec2Model ----
(***************************************************************************)
(* State-machine model of mskexporter.pyw (class MainTk): the Tk event     *)
(* loop dispatches one handler at a time, each handler runs to completion. *)
(* Python strings are sequences of one-character strings, so that the      *)
(* marker prefix, whitespace stripping and the os.path operations are      *)
(* computed character by character as the library computes them            *)
(* (os.path is modelled as posixpath).                                     *)
(***************************************************************************)
EXTENDS Integers, Sequences, FiniteSets, TLC

\* ------------------------------------------------------------------ bounds
\* Longest path the file dialog hands back.
MaxPathLen == 4
\* Longest file list a generation call returns.
MaxFiles == 2

\* --------------------------------------------------------- Python strings
\* None, told apart from every string (a sequence of characters)
None == <<"None">>

StrUpTo(A, n) == UNION {[1..k -> A] : k \in 0..n}

Whitespace == {" "}

startswith(s, c) == Len(s) > 0 /\ s[1] = c

endswith(s, c) == Len(s) > 0 /\ s[Len(s)] = c

\* str.lstrip(chars) / str.rstrip(chars)
RECURSIVE lstrip(_, _)
lstrip(s, chars) ==
    IF Len(s) > 0 /\ s[1] \in chars THEN lstrip(Tail(s), chars) ELSE s

RECURSIVE rstrip(_, _)
rstrip(s, chars) ==
    IF Len(s) > 0 /\ s[Len(s)] \in chars
    THEN rstrip(SubSeq(s, 1, Len(s) - 1), chars)
    ELSE s

\* str.strip()
strip(s) == rstrip(lstrip(s, Whitespace), Whitespace)

\* str.find / str.rfind, as 1-based positions, 0 when the character is absent
find(s, c) ==
    LET I == {i \in 1..Len(s) : s[i] = c}
    IN  IF I = {} THEN 0 ELSE CHOOSE i \in I : \A j \in I : i <= j

rfind(s, c) ==
    LET I == {i \in 1..Len(s) : s[i] = c}
    IN  IF I = {} THEN 0 ELSE CHOOSE i \in I : \A j \in I : i >= j

\* message.split(sep, maxsplit=1)[1]: what follows the first separator
split1_second(s, sep) == SubSeq(s, find(s, sep) + 1, Len(s))

\* str.split(sep): the list of fields
RECURSIVE str_split(_, _)
str_split(s, sep) ==
    LET i == find(s, sep)
    IN  IF i = 0 THEN <<s>>
        ELSE <<SubSeq(s, 1, i - 1)>> \o str_split(SubSeq(s, i + 1, Len(s)), sep)

\* sep.join(list)
RECURSIVE str_join(_, _)
str_join(sep, l) ==
    IF l = <<>> THEN <<>>
    ELSE IF Len(l) = 1 THEN l[1]
    ELSE l[1] \o sep \o str_join(sep, Tail(l))

\* ---------------------------------------------------------------- os.path
AllSlashes(s) == \A i \in 1..Len(s) : s[i] = "/"

\* os.path.split(p) -> <<head, tail>>
os_path_split(p) ==
    LET i    == rfind(p, "/")
        head == SubSeq(p, 1, i)
        tail == SubSeq(p, i + 1, Len(p))
    IN  IF Len(head) > 0 /\ ~AllSlashes(head)
        THEN <<rstrip(head, {"/"}), tail>>
        ELSE <<head, tail>>

\* os.path.dirname(p)
os_path_dirname(p) == os_path_split(p)[1]

\* os.path.splitext(p) -> <<root, ext>>; leading dots of the last component
\* are not an extension separator
os_path_splitext(p) ==
    LET sepIndex == rfind(p, "/")
        dotIndex == rfind(p, ".")
    IN  IF dotIndex > sepIndex
           /\ \E k \in (sepIndex + 1)..(dotIndex - 1) : p[k] # "."
        THEN <<SubSeq(p, 1, dotIndex - 1), SubSeq(p, dotIndex, Len(p))>>
        ELSE <<p, <<>>>>

\* os.path.join(a, b)
os_path_join(a, b) ==
    IF startswith(b, "/") THEN b
    ELSE IF Len(a) = 0 \/ endswith(a, "/") THEN a \o b
    ELSE a \o <<"/">> \o b

\* the component loop of os.path.normpath
RECURSIVE norm_comps(_, _, _)
norm_comps(comps, new_comps, initial_slashes) ==
    IF comps = <<>> THEN new_comps
    ELSE LET comp == Head(comps)
             rest == Tail(comps)
         IN  IF comp \in {<<>>, <<".">>}
             THEN norm_comps(rest, new_comps, initial_slashes)
             ELSE IF \/ comp # <<".", ".">>
                     \/ (initial_slashes = 0 /\ new_comps = <<>>)
                     \/ (new_comps # <<>> /\ new_comps[Len(new_comps)] = <<".", ".">>)
             THEN norm_comps(rest, Append(new_comps, comp), initial_slashes)
             ELSE IF new_comps # <<>>
             THEN norm_comps(rest, SubSeq(new_comps, 1, Len(new_comps) - 1), initial_slashes)
             ELSE norm_comps(rest, new_comps, initial_slashes)

\* os.path.normpath(path)
os_path_normpath(path) ==
    IF path = <<>> THEN <<".">>
    ELSE LET initial_slashes ==
                 IF ~startswith(path, "/") THEN 0
                 ELSE IF Len(path) >= 2 /\ path[2] = "/"
                         /\ ~(Len(path) >= 3 /\ path[3] = "/") THEN 2
                 ELSE 1
             comps  == norm_comps(str_split(path, <<"/">>[1]), <<>>, initial_slashes)
             joined == str_join(<<"/">>, comps)
             full   == [i \in 1..initial_slashes |-> "/"] \o joined
         IN  IF full = <<>> THEN <<".">> ELSE full

\* ------------------------------------------------------------ the program
VARIABLES
    app,           \* the MainTk instance: its fields and its widgets' options
    fs,            \* the file system the program looks at
    log,           \* the calls the last handler made, in order
    event,         \* the last handler the event loop ran, its inputs and result
    lastStatusOp   \* the last operation on the status bar so far

vars == <<app, fs, log, event, lastStatusOp>>

OUTPUT_TYPES ==
    << <<"m", "d">>, <<"o", "d", "t">>, <<"d", "o", "c", "x">>, <<"h", "t", "m", "l">> >>

\* the colours of the status bar: root.cget('background') is Tk's default
\* background, which is also a Label's default; a Label's default foreground
\* is black
root_background == "background"

OutlineWritten ==
    <<"O", "u", "t", "l", "i", "n", "e", " ", "d", "o", "c", "u", "m", "e", "n",
      "t", "s", " ", "w", "r", "i", "t", "t", "e", "n", ".">>

WorldWritten ==
    <<"S", "t", "o", "r", "y", " ", "w", "o", "r", "l", "d", " ", "d", "o", "c",
      "u", "m", "e", "n", "t", " ", "w", "r", "i", "t", "t", "e", "n", ".">>

CharactersWritten ==
    <<"C", "h", "a", "r", "a", "c", "t", "e", "r", " ", "s", "h", "e", "e", "t",
      "s", " ", "d", "o", "c", "u", "m", "e", "n", "t", " ", "w", "r", "i", "t",
      "t", "e", "n", ".">>

\* -------------------------------------------------------- the environment
\* Directories that may or may not exist; "/" and "." always do.
CandidateDirs == {<<"/", "p">>}

FileSystems ==
    {[dirs |-> D \cup {<<"/">>, <<".">>}, files |-> {}] : D \in SUBSET CandidateDirs}

\* The directory a path names: "//x" and "/x" are the same directory.
Resolve(p) ==
    LET n == os_path_normpath(p)
    IN  IF Len(n) >= 2 /\ n[1] = "/" /\ n[2] = "/" THEN Tail(n) ELSE n

\* Paths the file dialog can hand back: the absolute path of a file, so the
\* last component is neither empty nor "." nor ".." and the path is no
\* directory.
PathChars == {"/", ".", "p"}

IsFilePath(p) ==
    LET tail == os_path_split(p)[2]
    IN  /\ startswith(p, "/")
        /\ tail \notin {<<>>, <<".">>, <<".", ".">>}
        /\ Resolve(p) \notin CandidateDirs

Selections == {p \in StrUpTo(PathChars, MaxPathLen) : IsFilePath(p)}

os_path_isdir(p) == p # <<>> /\ Resolve(p) \in fs.dirs

os_path_isfile(p) == p # <<>> /\ Resolve(p) \in fs.files

\* Error descriptions str(ex) of the generation collaborator.
GenErrors == {<<>>, <<"b">>, <<" ", "b", " ">>, <<"!", "b">>}

\* Error descriptions str(ex) of the format converter.
PandocErrors == {<<"b">>, <<"!", "b">>}

\* Markdown files a generation call writes.
MdFiles == {<<"a", ".", "m", "d">>, <<"p", "/", "b", ".", "m", "d">>}

FileLists == StrUpTo(MdFiles, MaxFiles)

\* What a generation call does: it returns a file list or raises.
GenResults ==
    {[ok |-> TRUE, fileList |-> l] : l \in FileLists}
        \cup {[ok |-> FALSE, ex |-> e] : e \in GenErrors}

\* What pypandoc.convert_file does on a file: it returns or raises.
PandocResult == {[ok |-> TRUE]} \cup {[ok |-> FALSE, ex |-> e] : e \in PandocErrors}

\* What it does on each file of a list (on no file after a failed generation).
Files(gen) == IF gen.ok THEN {gen.fileList[i] : i \in 1..Len(gen.fileList)} ELSE {}

PandocResults(gen) == [Files(gen) -> PandocResult]

\* window geometries root.winfo_geometry() reports
Geometries == {"640x480"}

\* -------------------------------------------------------- MainTk methods
\* Each method maps the instance s (the fields of app, the log of calls
\* made so far and the return value ret) to the instance after the call.

Logged(s, entry) == [s EXCEPT !.log = Append(@, entry)]

\* set_info_how as it would be if a report without the marker were also
\* remembered as the status text
set_info_how_remembering(s, message) ==
    LET how == IF startswith(message, "!")
               THEN strip(split1_second(message, "!"))
               ELSE message
        bar == IF startswith(message, "!")
               THEN [text |-> how, bg |-> "red", fg |-> "white"]
               ELSE [text |-> how, bg |-> "green", fg |-> "white"]
        t   == [s EXCEPT !.infoHowText = how, !.statusBar = bar,
                         !._statusText = IF startswith(message, "!") THEN @ ELSE how]
    IN  Logged(t, [op |-> "set_info_how", message |-> message, bar |-> bar])

\* MainTk.set_info_how
set_info_how(s, message) ==
    LET how == IF startswith(message, "!")
               THEN strip(split1_second(message, "!"))
               ELSE message
        bar == IF startswith(message, "!")
               THEN [text |-> how, bg |-> "red", fg |-> "white"]
               ELSE [text |-> how, bg |-> "green", fg |-> "white"]
        t   == [s EXCEPT !.infoHowText = how, !.statusBar = bar]
    IN  Logged(t, [op |-> "set_info_how", message |-> message, bar |-> bar])

\* show_path as it would be if it stored the path as the status text
show_path_as_status(s, message) ==
    [s EXCEPT !._statusText = message, !.pathBar = [text |-> message]]

\* MainTk.show_path
show_path(s, message) ==
    [s EXCEPT !._pathText = message, !.pathBar = [text |-> message]]

\* show_status as it would be if it changed the text and left the colours
show_status_keeping_colours(s, message) ==
    LET bar == [text |-> message, bg |-> s.statusBar.bg, fg |-> s.statusBar.fg]
        t   == [s EXCEPT !._statusText = message, !.statusBar = bar]
    IN  Logged(t, [op |-> "show_status", message |-> message, bar |-> bar])

\* MainTk.show_status
show_status(s, message) ==
    LET bar == [text |-> message, bg |-> root_background, fg |-> "black"]
        t   == [s EXCEPT !._statusText = message, !.statusBar = bar]
    IN  Logged(t, [op |-> "show_status", message |-> message, bar |-> bar])

\* restore_status as it would be if it restored the last how-text
restore_status_how(s) == show_status(s, s.infoHowText)

\* MainTk.restore_status
restore_status(s) == show_status(s, s._statusText)

\* disable_menu as it would be if it forgot the Convert menu
disable_menu_close_only(s) == [s EXCEPT !.fileMenuClose = "disabled"]

\* MainTk.disable_menu
disable_menu(s) ==
    [s EXCEPT !.fileMenuClose = "disabled", !.mainMenuConvert = "disabled"]

\* enable_menu as it would be if it forgot the Convert menu
enable_menu_close_only(s) == [s EXCEPT !.fileMenuClose = "normal"]

\* MainTk.enable_menu
enable_menu(s) ==
    [s EXCEPT !.fileMenuClose = "normal", !.mainMenuConvert = "normal"]

\* close_project as it would be if it left the path field alone
close_project_keeping_path(s) ==
    LET s1 == [s EXCEPT !.prjDir = None, !.rootTitle = s.title]
        s2 == show_status(s1, <<>>)
    IN  disable_menu(s2)

\* MainTk.close_project
close_project(s) ==
    LET s1 == [s EXCEPT !.prjDir = None, !.rootTitle = s.title]
        s2 == show_status(s1, <<>>)
        s3 == show_path(s2, <<>>)
    IN  disable_menu(s3)

\* MainTk.select_project: dialog is what askopenfilename returns if it is
\* shown (<<>> when the user dismisses it); the chosen path is left in ret
select_project(s, fileName, dialog) ==
    LET last    == IF "yw_last_open" \in DOMAIN s.kwargs
                   THEN s.kwargs.yw_last_open ELSE <<>>
        dir0    == os_path_dirname(last)
        initDir == IF dir0 = <<>> THEN <<".", "/">> ELSE dir0
    IN  IF fileName = <<>> \/ ~os_path_isfile(fileName)
        THEN [Logged(s, [op |-> "askopenfilename", initialdir |-> initDir])
                 EXCEPT !.ret = dialog]
        ELSE [s EXCEPT !.ret = fileName]

\* open_project as it would be without the os.path.isdir check
open_project_unchecked(s, fileName, dialog) ==
    LET s1       == restore_status(s)
        s2       == select_project(s1, fileName, dialog)
        selected == s2.ret
    IN  IF selected = <<>> THEN [s2 EXCEPT !.ret = FALSE]
        ELSE LET s3      == IF s2.prjDir # None THEN close_project(s2) ELSE s2
                 file    == os_path_split(selected)[2]
                 dir     == os_path_split(selected)[1]
                 prjName == os_path_splitext(file)[1]
                 prjDir  == os_path_join(dir, prjName)
                 s4      == [s3 EXCEPT !.prjDir = prjDir, !.prjName = prjName]
                 s5      == show_path(s4, os_path_normpath(prjDir))
             IN  [enable_menu(s5) EXCEPT !.ret = TRUE]

\* open_project as it would be if the previous project were closed only
\* once the new project directory has been found
open_project_closing_late(s, fileName, dialog) ==
    LET s1       == restore_status(s)
        s2       == select_project(s1, fileName, dialog)
        selected == s2.ret
    IN  IF selected = <<>> THEN [s2 EXCEPT !.ret = FALSE]
        ELSE LET file    == os_path_split(selected)[2]
                 dir     == os_path_split(selected)[1]
                 prjName == os_path_splitext(file)[1]
                 prjDir  == os_path_join(dir, prjName)
                 s3      == Logged(s2, [op     |-> "isdir",
                                        closed |-> s2.prjDir = None,
                                        result |-> os_path_isdir(prjDir)])
             IN  IF ~os_path_isdir(prjDir)
                 THEN [s3 EXCEPT !.ret = FALSE]
                 ELSE LET s3a == IF s3.prjDir # None THEN close_project(s3) ELSE s3
                          s4  == [s3a EXCEPT !.prjDir = prjDir, !.prjName = prjName]
                          s5  == show_path(s4, os_path_normpath(prjDir))
                      IN  [enable_menu(s5) EXCEPT !.ret = TRUE]

\* open_project as it would be if the previous project were closed before
\* the user has chosen a file
open_project_closing_first(s, fileName, dialog) ==
    LET s1       == restore_status(s)
        s1a      == IF s1.prjDir # None THEN close_project(s1) ELSE s1
        s2       == select_project(s1a, fileName, dialog)
        selected == s2.ret
    IN  IF selected = <<>> THEN [s2 EXCEPT !.ret = FALSE]
        ELSE LET file    == os_path_split(selected)[2]
                 dir     == os_path_split(selected)[1]
                 prjName == os_path_splitext(file)[1]
                 prjDir  == os_path_join(dir, prjName)
                 s3      == Logged(s2, [op     |-> "isdir",
                                        closed |-> s2.prjDir = None,
                                        result |-> os_path_isdir(prjDir)])
             IN  IF ~os_path_isdir(prjDir)
                 THEN [s3 EXCEPT !.prjDir = None, !.prjName = None, !.ret = FALSE]
                 ELSE LET s4 == [s3 EXCEPT !.prjDir = prjDir, !.prjName = prjName]
                          s5 == show_path(s4, os_path_normpath(prjDir))
                      IN  [enable_menu(s5) EXCEPT !.ret = TRUE]

\* MainTk.open_project
open_project(s, fileName, dialog) ==
    LET s1       == restore_status(s)
        s2       == select_project(s1, fileName, dialog)
        selected == s2.ret
    IN  IF selected = <<>> THEN [s2 EXCEPT !.ret = FALSE]
        ELSE LET s3      == IF s2.prjDir # None THEN close_project(s2) ELSE s2
                 file    == os_path_split(selected)[2]
                 dir     == os_path_split(selected)[1]
                 prjName == os_path_splitext(file)[1]
                 prjDir  == os_path_join(dir, prjName)
                 s3a     == Logged(s3, [op     |-> "isdir",
                                        closed |-> s3.prjDir = None,
                                        result |-> os_path_isdir(prjDir)])
             IN  IF ~os_path_isdir(prjDir)
                 THEN [s3a EXCEPT !.prjDir = None, !.prjName = None, !.ret = FALSE]
                 ELSE LET s4 == [s3a EXCEPT !.prjDir = prjDir, !.prjName = prjName]
                          s5 == show_path(s4, os_path_normpath(prjDir))
                      IN  [enable_menu(s5) EXCEPT !.ret = TRUE]

\* the loop of call_pandoc as it would be if a failure ended the batch
RECURSIVE call_pandoc_loop_aborting(_, _, _, _, _)
call_pandoc_loop_aborting(s, fileList, results, extension, i) ==
    IF i > Len(fileList) THEN s
    ELSE LET mdFile == fileList[i]
             dir    == os_path_split(mdFile)[1]
             file   == os_path_split(mdFile)[2]
             name   == os_path_splitext(file)[1]
             s1     == Logged(s, [op         |-> "convert_file",
                                  source     |-> mdFile,
                                  to         |-> extension,
                                  outputfile |-> os_path_join(dir, name \o <<".">> \o extension),
                                  ok         |-> results[mdFile].ok])
         IN  IF results[mdFile].ok
             THEN call_pandoc_loop_aborting(s1, fileList, results, extension, i + 1)
             ELSE set_info_how(s1, results[mdFile].ex)

\* the body of the for loop of MainTk.call_pandoc, from file i on
RECURSIVE call_pandoc_loop(_, _, _, _, _)
call_pandoc_loop(s, fileList, results, extension, i) ==
    IF i > Len(fileList) THEN s
    ELSE LET mdFile == fileList[i]
             dir    == os_path_split(mdFile)[1]
             file   == os_path_split(mdFile)[2]
             name   == os_path_splitext(file)[1]
             s1     == Logged(s, [op         |-> "convert_file",
                                  source     |-> mdFile,
                                  to         |-> extension,
                                  outputfile |-> os_path_join(dir, name \o <<".">> \o extension),
                                  ok         |-> results[mdFile].ok])
             s2     == IF results[mdFile].ok THEN s1
                       ELSE set_info_how(s1, results[mdFile].ex)
         IN  call_pandoc_loop(s2, fileList, results, extension, i + 1)

\* call_pandoc as it would be if every index selected a conversion
call_pandoc_any_index(s, fileList, results) ==
    LET outputIndex == s.outputType
    IN  IF outputIndex >= 0
        THEN call_pandoc_loop(s, fileList, results, OUTPUT_TYPES[outputIndex + 1], 1)
        ELSE s

\* MainTk.call_pandoc: results[f] is what pypandoc.convert_file does on file f
call_pandoc(s, fileList, results) ==
    LET outputIndex == s.outputType
    IN  IF outputIndex > 0
        THEN call_pandoc_loop(s, fileList, results, OUTPUT_TYPES[outputIndex + 1], 1)
        ELSE s

\* convert_outline as it would be if a failed generation closed the project
convert_outline_closing(s, gen, results) ==
    LET s1 == Logged(s, [op |-> "mskmd", category |-> "outline",
                         prjDir |-> s.prjDir, ok |-> gen.ok])
    IN  IF gen.ok
        THEN call_pandoc(set_info_how(s1, OutlineWritten), gen.fileList, results)
        ELSE set_info_how(close_project(s1), <<"!">> \o gen.ex)

\* MainTk.convert_outline: gen is what mskmd.convert_outline does
convert_outline(s, gen, results) ==
    LET s1 == Logged(s, [op |-> "mskmd", category |-> "outline",
                         prjDir |-> s.prjDir, ok |-> gen.ok])
    IN  IF gen.ok
        THEN call_pandoc(set_info_how(s1, OutlineWritten), gen.fileList, results)
        ELSE set_info_how(s1, <<"!">> \o gen.ex)

\* convert_world as it would be if a failed generation still handed a
\* file to the converter
convert_world_forwarding(s, gen, results) ==
    LET s1 == Logged(s, [op |-> "mskmd", category |-> "world",
                         prjDir |-> s.prjDir, ok |-> gen.ok])
        f  == <<"a", ".", "m", "d">>
    IN  IF gen.ok
        THEN call_pandoc(set_info_how(s1, WorldWritten), gen.fileList, results)
        ELSE call_pandoc(set_info_how(s1, <<"!">> \o gen.ex), <<f>>,
                         [x \in {f} |-> [ok |-> TRUE]])

\* MainTk.convert_world: gen is what mskmd.convert_world does
convert_world(s, gen, results) ==
    LET s1 == Logged(s, [op |-> "mskmd", category |-> "world",
                         prjDir |-> s.prjDir, ok |-> gen.ok])
    IN  IF gen.ok
        THEN call_pandoc(set_info_how(s1, WorldWritten), gen.fileList, results)
        ELSE set_info_how(s1, <<"!">> \o gen.ex)

\* convert_characters as it would be if the error were reported unmarked
convert_characters_unmarked(s, gen, results) ==
    LET s1 == Logged(s, [op |-> "mskmd", category |-> "characters",
                         prjDir |-> s.prjDir, ok |-> gen.ok])
    IN  IF gen.ok
        THEN call_pandoc(set_info_how(s1, CharactersWritten), gen.fileList, results)
        ELSE set_info_how(s1, gen.ex)

\* MainTk.convert_characters: gen is what mskmd.convert_characters does
convert_characters(s, gen, results) ==
    LET s1 == Logged(s, [op |-> "mskmd", category |-> "characters",
                         prjDir |-> s.prjDir, ok |-> gen.ok])
    IN  IF gen.ok
        THEN call_pandoc(set_info_how(s1, CharactersWritten), gen.fileList, results)
        ELSE set_info_how(s1, <<"!">> \o gen.ex)

\* MainTk.on_quit
on_quit(s, geometry) ==
    [s EXCEPT !.kwargs = [@ EXCEPT !.root_geometry = geometry], !.mainloop = FALSE]

\* MainTk._build_main_menu: the entries are created enabled, then disabled
_build_main_menu(s) ==
    disable_menu([s EXCEPT !.fileMenuClose = "disabled", !.mainMenuConvert = "normal"])

\* MainTk._open_project
_open_project(s, dialog) == open_project(s, <<>>, dialog)

\* MainTk.__init__ and MainTk.start, as the main program calls them
MainTk(title, kwargs) ==
    LET s == [usePandoc       |-> TRUE,
              infoHowText     |-> <<>>,
              title           |-> title,
              _statusText     |-> <<>>,
              kwargs          |-> kwargs,
              prjDir          |-> None,
              prjName         |-> None,
              _pathText       |-> None,
              rootTitle       |-> title,
              fileMenuClose   |-> "normal",
              mainMenuConvert |-> "normal",
              statusBar       |-> [text |-> <<>>, bg |-> root_background, fg |-> "black"],
              pathBar         |-> [text |-> <<>>],
              outputType      |-> 0,
              mainloop        |-> TRUE,
              log             |-> <<>>,
              ret             |-> None]
    IN  _build_main_menu(s)

\* ------------------------------------------------------- the event loop
AppFields == DOMAIN app

\* the instance a handler starts on
Enter == [log |-> <<>>, ret |-> None] @@ app

StatusOps(l) == SelectSeq(l, LAMBDA e : e.op \in {"set_info_how", "show_status"})

\* the handler has run and left the instance t
Leave(t, ev) ==
    /\ app' = [f \in AppFields |-> t[f]]
    /\ log' = t.log
    /\ event' = ev
    /\ lastStatusOp' = IF StatusOps(t.log) = <<>> THEN lastStatusOp
                       ELSE StatusOps(t.log)[Len(StatusOps(t.log))]
    /\ UNCHANGED fs

Init ==
    /\ fs \in FileSystems
    /\ app = LET s == MainTk("Manuskript to Markdown converter",
                             [root_geometry |-> "400x200"])
             IN  [f \in DOMAIN s \ {"log", "ret"} |-> s[f]]
    /\ log = <<>>
    /\ event = [name |-> "__init__"]
    /\ lastStatusOp = [op |-> "none"]

\* The selected path without the extension of its last component (leading
\* dots of the component start no extension).
StripExtension(p) ==
    LET seps    == {i \in 1..Len(p) : p[i] = "/"}
        first   == IF seps = {} THEN 1
                   ELSE 1 + CHOOSE i \in seps : \A j \in seps : j <= i
        dots    == {i \in first..Len(p) : p[i] = "." /\ \E k \in first..(i - 1) : p[k] # "."}
    IN  IF dots = {} THEN p
        ELSE SubSeq(p, 1, (CHOOSE i \in dots : \A j \in dots : j <= i) - 1)

\* The companion directory of a selection, None if there is none.
Companion(dialog) ==
    IF dialog # <<>> /\ os_path_isdir(StripExtension(dialog))
    THEN Resolve(StripExtension(dialog))
    ELSE None

\* File > Open... (lambda: self.open_project('')) and Ctrl-O (_open_project)
\* make the same call. The event records whether the dialog was dismissed,
\* the companion directory of the selection and whether a project was open.
OpenProject ==
    /\ app.mainloop
    /\ \E dialog \in Selections \cup {<<>>} :
           LET t == _open_project(Enter, dialog)
           IN  Leave(t, [name      |-> "open_project",
                         cancelled |-> dialog = <<>>,
                         companion |-> Companion(dialog),
                         wasOpen   |-> app.prjDir # None,
                         ret       |-> t.ret])

\* File > Close, while the entry is enabled
FileClose ==
    /\ app.mainloop
    /\ app.fileMenuClose = "normal"
    /\ Leave(close_project(Enter), [name |-> "close_project"])

\* Escape, or a click on the status bar
RestoreStatus ==
    /\ app.mainloop
    /\ Leave(restore_status(Enter), [name |-> "restore_status"])

\* a radio button of the output selector
SelectOutputType ==
    /\ app.mainloop
    /\ \E i \in 0..(Len(OUTPUT_TYPES) - 1) :
           Leave([Enter EXCEPT !.outputType = i], [name |-> "outputType", value |-> i])

\* Convert > Outline, while the Convert menu is enabled
ConvertOutline ==
    /\ app.mainloop
    /\ app.mainMenuConvert = "normal"
    /\ \E gen \in GenResults :
       \E results \in PandocResults(gen) :
           Leave(convert_outline(Enter, gen, results),
                 [name |-> "convert_outline", gen |-> gen])

\* Convert > World, while the Convert menu is enabled
ConvertWorld ==
    /\ app.mainloop
    /\ app.mainMenuConvert = "normal"
    /\ \E gen \in GenResults :
       \E results \in PandocResults(gen) :
           Leave(convert_world(Enter, gen, results),
                 [name |-> "convert_world", gen |-> gen])

\* Convert > Characters, while the Convert menu is enabled
ConvertCharacters ==
    /\ app.mainloop
    /\ app.mainMenuConvert = "normal"
    /\ \E gen \in GenResults :
       \E results \in PandocResults(gen) :
           Leave(convert_characters(Enter, gen, results),
                 [name |-> "convert_characters", gen |-> gen])

\* File > Exit, Ctrl-Q, or closing the window
Quit ==
    /\ app.mainloop
    /\ \E geometry \in Geometries :
           Leave(on_quit(Enter, geometry), [name |-> "on_quit"])

Next ==
    \/ OpenProject
    \/ FileClose
    \/ RestoreStatus
    \/ SelectOutputType
    \/ ConvertOutline
    \/ ConvertWorld
    \/ ConvertCharacters
    \/ Quit

Spec == Init /\ [][Next]_vars

\* ---------------------------------------------------------- properties
ConvertEvents == {"convert_outline", "convert_world", "convert_characters"}

IsConvert == event.name \in ConvertEvents

GenerationFailed == IsConvert /\ ~event.gen.ok

GenerationSucceeded == IsConvert /\ event.gen.ok

IsOpen == event.name = "open_project"

Calls(op) == SelectSeq(log, LAMBDA e : e.op = op)

PandocCalls == Calls("convert_file")

Reports == Calls("set_info_how")

ProjectOpen == app.prjDir # None

MenuEnabled == app.fileMenuClose = "normal" /\ app.mainMenuConvert = "normal"

MenuDisabled == app.fileMenuClose = "disabled" /\ app.mainMenuConvert = "disabled"

Neutral(text) == [text |-> text, bg |-> root_background, fg |-> "black"]

ErrorStyled(bar) == bar.bg = "red" /\ bar.fg = "white"

SuccessMessage ==
    [convert_outline    |-> OutlineWritten,
     convert_world      |-> WorldWritten,
     convert_characters |-> CharactersWritten]

\* C1: in every reachable state the Close and Convert entries are enabled
\* if and only if a project is open; after construction they are disabled
\* and no project is open.
C1_MenuIffProjectOpen ==
    /\ ProjectOpen => MenuEnabled
    /\ ~ProjectOpen => MenuDisabled
    /\ event.name = "__init__" => ~ProjectOpen /\ MenuDisabled

C1_Witness == IsOpen /\ ProjectOpen /\ MenuEnabled

\* C2: a convert action whose generation call raises makes no call of the
\* external converter, whatever output format is selected.
C2_NoConversionAfterFailedGeneration ==
    GenerationFailed => PandocCalls = <<>>

C2_Witness ==
    /\ event.name = "convert_world"
    /\ GenerationFailed
    /\ app.outputType > 0
    /\ PandocCalls = <<>>

\* C3: with a format other than the source format selected, the converter is
\* called exactly once for each file of the list, in list order, whichever
\* calls fail.
C3_EveryFileAttemptedInOrder ==
    GenerationSucceeded /\ app.outputType > 0 =>
        [i \in 1..Len(PandocCalls) |-> PandocCalls[i].source] = event.gen.fileList

C3_Witness ==
    /\ GenerationSucceeded
    /\ app.outputType > 0
    /\ Len(event.gen.fileList) >= 2
    /\ Len(PandocCalls) = Len(event.gen.fileList)
    /\ ~PandocCalls[1].ok
    /\ PandocCalls[2].source # PandocCalls[1].source

\* C4: every failure of the converter on a file is followed by a report of
\* that file's error that renders the status bar with error styling.
C4_ConversionFailureShownAsError ==
    \A i \in 1..Len(log) :
        log[i].op = "convert_file" /\ ~log[i].ok =>
            /\ i < Len(log)
            /\ log[i + 1].op = "set_info_how"
            /\ ErrorStyled(log[i + 1].bar)

\* C5: after a successful generation call the converter is called only when
\* the selected format is not the source format (index 0); with the source
\* format selected it is called zero times, whatever the file list.
C5_NoConversionForSourceFormat ==
    GenerationSucceeded =>
        /\ app.outputType = 0 => PandocCalls = <<>>
        /\ PandocCalls # <<>> => app.outputType # 0

C5_Witness ==
    /\ GenerationSucceeded
    /\ app.outputType = 0
    /\ Len(event.gen.fileList) >= 2
    /\ PandocCalls = <<>>

\* C6 as claimed: a report without the marker is remembered as the current
\* status text (so that a later restore shows it again).
C6_ReportRememberedAsStatusText ==
    lastStatusOp.op = "set_info_how" /\ ~startswith(lastStatusOp.message, "!") =>
        app._statusText = lastStatusOp.message

\* C6 as amended: a handler that only reports (calls set_info_how, never
\* show_status) leaves the remembered status text as it was, a report being
\* kept as the how-text only; restore_status re-renders the status text that
\* was current before it, with neutral styling, and keeps it.
C6_ReportsKeepStatusText ==
    [][/\ (\A i \in 1..Len(log') : log'[i].op # "show_status") =>
              app'._statusText = app._statusText
       /\ Reports' # <<>> =>
              app'.infoHowText = Reports'[Len(Reports')].bar.text
       /\ event'.name = "restore_status" =>
              /\ app'.statusBar = Neutral(app._statusText)
              /\ app'._statusText = app._statusText]_vars

C6_Witness ==
    /\ event.name = "restore_status"
    /\ app.infoHowText = OutlineWritten
    /\ app.statusBar = Neutral(<<>>)

\* C7 as claimed: the status bar carries error styling if and only if the
\* last operation on it was a report whose message begins with "!", and the
\* text shown and stored is then the message without that first character.
C7_ErrorStylingIffMarker ==
    LET marked == lastStatusOp.op = "set_info_how"
                      /\ startswith(lastStatusOp.message, "!")
    IN  /\ ErrorStyled(app.statusBar) <=> marked
        /\ app.statusBar.bg = "red" <=> marked
        /\ marked => /\ app.statusBar.text = Tail(lastStatusOp.message)
                     /\ app.infoHowText = Tail(lastStatusOp.message)

\* C7 as amended: the status bar carries error styling if and only if the
\* last operation on it was a report whose message begins with "!", and the
\* text shown and stored is then the message without that first character
\* and without leading and trailing whitespace.
C7_ErrorStylingIffMarkerStripped ==
    LET marked == lastStatusOp.op = "set_info_how"
                      /\ startswith(lastStatusOp.message, "!")
    IN  /\ ErrorStyled(app.statusBar) <=> marked
        /\ app.statusBar.bg = "red" <=> marked
        /\ marked => /\ app.statusBar.text = strip(Tail(lastStatusOp.message))
                     /\ app.infoHowText = strip(Tail(lastStatusOp.message))

C7_Witness ==
    /\ ErrorStyled(app.statusBar)
    /\ lastStatusOp.op = "set_info_how"
    /\ lastStatusOp.message = <<"!", " ", "b", " ">>
    /\ app.statusBar.text = <<"b">>

\* C8 as claimed: a convert action whose generation call raises emits
\* exactly one report, rendered with error styling, whose text is the
\* error's description; the success message is not reported.
C8_FailedGenerationReportedOnce ==
    GenerationFailed =>
        /\ Len(Reports) = 1
        /\ ErrorStyled(Reports[1].bar)
        /\ Reports[1].bar.text = event.gen.ex
        /\ Reports[1].message # SuccessMessage[event.name]

\* C8 as amended: a convert action whose generation call raises emits
\* exactly one report, rendered with error styling, whose text is the
\* error's description without leading and trailing whitespace; the success
\* message is not reported.
C8_FailedGenerationReportedOnceStripped ==
    GenerationFailed =>
        /\ Len(Reports) = 1
        /\ ErrorStyled(Reports[1].bar)
        /\ Reports[1].bar.text = strip(event.gen.ex)
        /\ app.statusBar = Reports[1].bar
        /\ Reports[1].message # SuccessMessage[event.name]

C8_Witness ==
    /\ event.name = "convert_characters"
    /\ GenerationFailed
    /\ event.gen.ex = <<" ", "b", " ">>
    /\ Len(Reports) = 1
    /\ app.statusBar = [text |-> <<"b">>, bg |-> "red", fg |-> "white"]

\* C9: for every selected path, open_project returns True and sets the
\* project directory to the companion directory (the selected path without
\* its extension) if and only if that directory exists; otherwise it returns
\* False and no project directory is set.
C9_OpensIffCompanionExists ==
    IsOpen /\ ~event.cancelled =>
        /\ event.ret <=> event.companion # None
        /\ event.ret => ProjectOpen /\ Resolve(app.prjDir) = event.companion
        /\ ~event.ret => ~ProjectOpen

C9_Witness ==
    /\ IsOpen
    /\ ~event.cancelled
    /\ event.ret
    /\ event.companion = <<"/", "p">>
    /\ app.prjDir = <<"/", "p">>

\* C10: from a state with no project open, opening a selection whose
\* companion directory is missing returns False, leaves the menu disabled
\* and no project open, and leaves the text and colours of the status bar as
\* they were.
C10_FailedOpenKeepsStatusBar ==
    [][(/\ event'.name = "open_project"
        /\ ~event'.cancelled
        /\ app.prjDir = None
        /\ event'.companion = None) =>
           /\ event'.ret = FALSE
           /\ app'.prjDir = None
           /\ app'.fileMenuClose = "disabled"
           /\ app'.mainMenuConvert = "disabled"
           /\ app'.statusBar = app.statusBar]_vars

C10_Witness ==
    /\ IsOpen
    /\ ~event.cancelled
    /\ ~event.wasOpen
    /\ event.companion = None
    /\ ~event.ret
    /\ app.infoHowText # <<>>
    /\ MenuDisabled

\* C11: when open_project runs while a project is open and a descriptor file
\* is selected, the previous project is closed (directory cleared, status and
\* path cleared, menu disabled) before the new project directory is looked
\* at; when the new project is rejected the session is left with no project.
C11_PreviousProjectClosedFirst ==
    (IsOpen /\ event.wasOpen /\ ~event.cancelled) =>
        /\ Len(log) = 4
        /\ log[3] = [op |-> "show_status", message |-> <<>>, bar |-> Neutral(<<>>)]
        /\ log[4].op = "isdir"
        /\ log[4].closed
        /\ ~event.ret =>
              /\ ~ProjectOpen
              /\ MenuDisabled
              /\ app._pathText = <<>>
              /\ app.pathBar.text = <<>>
              /\ app.statusBar = Neutral(<<>>)
              /\ app.rootTitle = app.title

C11_Witness ==
    /\ IsOpen
    /\ event.wasOpen
    /\ ~event.cancelled
    /\ event.companion = None
    /\ ~event.ret
    /\ ~ProjectOpen
    /\ MenuDisabled

\* C12: when the user dismisses the file dialog, open_project returns False,
\* emits no report, never looks at a project directory, and leaves the open
\* project (if any), the path field and the menu state as they were.
C12_CancelledOpenChangesNothing ==
    [][(event'.name = "open_project" /\ event'.cancelled) =>
          /\ event'.ret = FALSE
          /\ Reports' = <<>>
          /\ \A i \in 1..Len(log') : log'[i].op # "isdir"
          /\ app'.prjDir = app.prjDir
          /\ app'.prjName = app.prjName
          /\ app'.rootTitle = app.rootTitle
          /\ app'._pathText = app._pathText
          /\ app'.pathBar = app.pathBar
          /\ app'.fileMenuClose = app.fileMenuClose
          /\ app'.mainMenuConvert = app.mainMenuConvert]_vars

C12_Witness ==
    /\ IsOpen
    /\ event.cancelled
    /\ event.wasOpen
    /\ ~event.ret
    /\ ProjectOpen
    /\ MenuEnabled
    /\ app.pathBar.text = <<"/", "p">>

\* C13: the generation collaborator (mskmd.convert_*) is only ever called
\* while a project is open: it is never handed a project directory of None.
C13_GenerationOnlyWithProject ==
    \A i \in 1..Len(log) :
        log[i].op = "mskmd" => (log[i].prjDir # None /\ ProjectOpen)

C13_Witness ==
    /\ IsConvert
    /\ Len(log) >= 1
    /\ log[1].op = "mskmd"
    /\ log[1].prjDir = <<"/", "p">>
    /\ app.prjDir = <<"/", "p">>

\* C14: in a convert action whose generation succeeds, the success message
\* is reported before the first converter call, a converter call is followed
\* by a report exactly when it failed (the report of that file's error), and
\* the status text shown at the end is the text of the last report: the
\* error text of the last failing file, or the success message when no file
\* failed.
C14_StatusIsLastFailureOrSuccess ==
    GenerationSucceeded =>
        /\ Len(log) >= 2
        /\ log[1].op = "mskmd"
        /\ log[2].op = "set_info_how"
        /\ log[2].message = SuccessMessage[event.name]
        /\ \A i \in 3..Len(log) :
               /\ log[i].op \in {"convert_file", "set_info_how"}
               /\ log[i].op = "set_info_how" <=>
                      (log[i - 1].op = "convert_file" /\ ~log[i - 1].ok)
        /\ app.statusBar.text = Reports[Len(Reports)].message

\* C15: whenever the file dialog is shown, its initial directory is the
\* directory of the last-opened project path if one is known, and the
\* current working directory otherwise. Stated for the two cases the state
\* decides: a project is open when the dialog is shown (its descriptor lies
\* beside the project directory, so the directory of the last-opened path
\* is the directory holding prjDir), and the dialog is the first thing that
\* happens in the session (nothing has been opened).
C15_DialogStartsAtLastOpened ==
    [][event'.name = "open_project" =>
          /\ Len(log') >= 2
          /\ log'[2].op = "askopenfilename"
          /\ app.prjDir # None =>
                 log'[2].initialdir = os_path_dirname(app.prjDir)
          /\ event.name = "__init__" =>
                 log'[2].initialdir = <<".", "/">>]_vars

\* C16: every convert action, whatever the generation call and the converter
\* calls do, leaves the project directory, the menu state, the path field,
\* the remembered status text and the selected output format as they were:
\* of the application's state it changes only the how-text and the status
\* bar.
C16_ConvertChangesOnlyStatusBar ==
    [][event'.name \in ConvertEvents =>
          \A f \in AppFields \ {"infoHowText", "statusBar"} : app'[f] = app[f]]_vars

C16_Witness ==
    /\ event.name = "convert_world"
    /\ GenerationSucceeded
    /\ Len(Reports) = 2
    /\ app.statusBar.text = <<"b">>
    /\ app.prjDir = <<"/", "/", "p">>
    /\ app.pathBar.text = <<"/", "/", "p">>
    /\ MenuEnabled
    /\ app._statusText = <<>>
    /\ app.outputType = 2

\* C17: the remembered status text (_statusText) is the empty string in
\* every reachable state; so restore_status and every call of open_project
\* leave the status bar empty with neutral styling.
C17_StatusTextAlwaysEmpty ==
    /\ app._statusText = <<>>
    /\ event.name \in {"restore_status", "open_project"} =>
           /\ app.statusBar = Neutral(<<>>)
           /\ \A i \in 1..Len(log) :
                  log[i].op = "show_status" => log[i].message = <<>>

C17_Witness ==
    /\ event.name = "restore_status"
    /\ ProjectOpen
    /\ app.infoHowText = <<"b">>
    /\ app._statusText = <<>>
    /\ app.statusBar = Neutral(<<>>)

\* C18: the path field is non-empty exactly when a project is open, and
\* while a project is open it shows the normalized path of the current
\* project directory.
C18_PathFieldShowsCurrentProject ==
    /\ app.pathBar.text # <<>> <=> ProjectOpen
    /\ ProjectOpen =>
           /\ app.pathBar.text = os_path_normpath(app.prjDir)
           /\ app._pathText = app.pathBar.text
           /\ os_path_isdir(app.pathBar.text)

C18_Witness ==
    /\ IsOpen
    /\ event.wasOpen
    /\ event.ret
    /\ app.prjDir = <<"/", "/", "p">>
    /\ app.pathBar.text = <<"/", "/", "p">>
    /\ lastStatusOp.op = "show_status"

====
